---- MODULE Spec2Model ----
(***************************************************************************)
(* Model of include/val.hpp: val<T> (value-semantic type-erased container) *)
(* and ptr<T> (reference-counting observer handle) over val_detail::block. *)
(*                                                                         *)
(* Spec      : every public operation is one atomic step (sequential use). *)
(* SpecConc  : threads run handle operations and ~val one memory access at *)
(*             a time, starting from two containers with a handle each.    *)
(* SpecHandles     : as SpecConc, but the containers are never destroyed.  *)
(* SpecHandlesFair : SpecHandles under a scheduler that keeps running.     *)
(***************************************************************************)
EXTENDS Integers, FiniteSets, Sequences, TLC

\* ------------------------------------------------------------------ bounds
MaxOps == 4          \* operations the caller runs in one run
MaxThreads == 2      \* threads of SpecConc and SpecHandles
MaxConcOps == 2      \* handle operations the threads start, all together, in one run

\* size_t arithmetic of descriptor_t::upcast_offset wraps modulo SizeMod
SizeMod == 8

NullPtr == 0

BlockIds  == 1..MaxOps           \* every operation allocates at most one block
ObjIds    == 1..MaxOps           \* and at most one value
ContIds   == BlockIds            \* a val is named by the block it allocated
HandleIds == 1..MaxOps           \* and builds at most one handle
Threads   == 1..MaxThreads
Values    == {5, 10}             \* contents of a stored value

\* ------------------------------------------------- the class hierarchy used
\* Shape is the polymorphic root.  Circle and Token derive from it.
\* Circle has another base in front of Shape, so its Shape sub-object sits
\* at displacement 1.  Token is movable but not copy-constructible.
Types == {"Shape", "Circle", "Token"}

\* std::is_base_of<T, U>  (true for T = U as well)
IsBaseOf(T, U) == T = U \/ T = "Shape"

\* displacement of the T sub-object inside a U object (T a base of U)
Disp(U, T) == IF U = "Circle" /\ T = "Shape" THEN 1 ELSE 0

\* std::is_copy_constructible<T>
IsCopyConstructible(T) == T # "Token"

\* sizeof(T)
SizeOf(T) == IF T = "Shape" THEN 1 ELSE 2

\* what dynamic_cast<T*> on a pointer into an object of concrete type C answers
DynamicCastOk(C, T) == IsBaseOf(T, C)

\* an offset computation that takes every base to sit at displacement 0
compute_upcast_offset_zero(T, U) == 0

\* val_detail::compute_upcast_offset<T, U>(): (size_t)((T*)((U*)1)) - 1
compute_upcast_offset(T, U) ==
    IF IsBaseOf(T, U) THEN Disp(U, T) % SizeMod
    ELSE (SizeMod - Disp(T, U)) % SizeMod

\* ------------------------------------------------------------------- state
VARIABLES
    block,    \* BlockIds -> [st, count, data, uaf]    val_detail::block
    obj,      \* ObjIds   -> [st, type, v, ndel, ndes] the erased values
    cont,     \* ContIds  -> [st, T, desc]             val<T>: data member
    hnd,      \* HandleIds-> [st, T, desc]             external ptr<T>
    proc,     \* "running" | "aborted" | "terminated"
    last,     \* the operation that ran last and how it ended
    concrete, \* the concrete type the caller instantiates in this run
    nops,     \* operations run so far
    pc,       \* Threads -> the statement a thread is at (SpecConc)
    loc,      \* Threads -> the locals of the operation it runs (SpecConc)
    mtx,      \* HandleIds -> the thread holding ptr::m, or 0
    own       \* HandleIds -> the thread a handle is local to, or 0 when shared

cvars == <<pc, loc, mtx, own>>
vars == <<block, obj, cont, hnd, proc, last, concrete, nops, pc, loc, mtx, own>>

NoDesc   == [block_ptr |-> 0, upcast_offset |-> 0, op_ptr |-> "none"]
NoBlock  == [st |-> "unalloc", count |-> 0, data |-> NullPtr, uaf |-> FALSE]
NoObj    == [st |-> "unalloc", type |-> "none", v |-> 5, ndel |-> 0, ndes |-> 0]
\* addresses an erased value can live at: the heap, or some val's small_storage
ObjAddrs == ObjIds \cup {0 - c : c \in ContIds}
NoCont   == [st |-> "none", T |-> "none", desc |-> NoDesc]
NoHandle == [st |-> "none", T |-> "none", desc |-> NoDesc]
NoLocals == [dst |-> 0, src |-> 0, d |-> NoDesc, old |-> NoDesc]

Last(op, status, dst, src, T) ==
    [op |-> op, status |-> status, dst |-> dst, src |-> src, T |-> T]

\* ---------------------------------------------------------- val_detail::block
\* delete this, inside block::decrement
FreeBlock(bl, b) == [bl EXCEPT ![b].st = "freed", ![b].count = 0]

\* a copy that forgets to count itself
increment_lost(bl, b) == bl

\* block::increment
increment(bl, b) ==
    IF bl[b].st # "live" THEN [bl EXCEPT ![b].uaf = TRUE]
    ELSE [bl EXCEPT ![b].count = @ + 1]

\* a decrement that frees the block one reference too early
decrement_early(bl, b) ==
    IF bl[b].st # "live" THEN [bl EXCEPT ![b].uaf = TRUE]
    ELSE IF bl[b].count <= 2 THEN FreeBlock(bl, b)
    ELSE [bl EXCEPT ![b].count = @ - 1]

\* block::decrement: the decrement that reads 1 frees the block
decrement(bl, b) ==
    IF bl[b].st # "live" THEN [bl EXCEPT ![b].uaf = TRUE]
    ELSE IF bl[b].count = 1 THEN FreeBlock(bl, b)
    ELSE [bl EXCEPT ![b].count = @ - 1]

\* the next address operator new hands out
NewBlockId(bl) == CHOOSE b \in BlockIds :
    bl[b].st = "unalloc" /\ \A x \in BlockIds : x < b => bl[x].st # "unalloc"
NewObjId(ob) == CHOOSE o \in ObjIds :
    ob[o].st = "unalloc" /\ \A x \in ObjIds : x < o => ob[x].st # "unalloc"
CanAlloc == (\E b \in BlockIds : block[b].st = "unalloc")
         /\ (\E o \in ObjIds : obj[o].st = "unalloc")

\* a constructor that accepts any address
BlockCtorThrows_never(d) == FALSE

\* block::block(void * d): count(0), data(d); a null d throws invalid_argument
BlockCtorThrows(d) == d = NullPtr
NewBlock(bl, b, d) == [bl EXCEPT ![b] = [st |-> "live", count |-> 0, data |-> d, uaf |-> FALSE]]

\* ------------------------------------------------------- operation dispatcher
\* new T(value) / new T(*data)
NewObj(ob, o, T, v) == [ob EXCEPT ![o] = [st |-> "live", type |-> T, v |-> v, ndel |-> 0, ndes |-> 0]]

\* a dispatcher that believes every type can be copied
CloneThrows_never(op) == FALSE

\* clone_impl<T, IsClonable>::clone: throws logic_error when T cannot be copied
CloneThrows(op) == ~IsCopyConstructible(op)

\* a clone that hands back the source's own storage
CloneAddr_shallow(ob, value) == value

\* op<T>(CLONE, value, nullptr): new T(*data), the address of the copy
CloneAddr(ob, value) == NewObjId(ob)

\* a copy made through the declared base type: the derived part is sliced off
clone_impl_sliced(ob, o, op, value) == NewObj(ob, o, "Shape", ob[value].v)

\* clone_impl<T, true>::clone, T the dispatcher's type: new T(*data)
clone_impl(ob, o, op, value) == NewObj(ob, o, op, ob[value].v)

\* op<T>(DELETE, value): delete data
delete_(ob, value) ==
    IF value = NullPtr THEN ob
    ELSE [ob EXCEPT ![value].st = "deleted", ![value].ndel = @ + 1]

\* op<T>(DESTRUCT, value): data->~T()
destruct(ob, value) ==
    IF value = NullPtr THEN ob
    ELSE [ob EXCEPT ![value].st = "deleted", ![value].ndes = @ + 1]

\* ------------------------------------------------------------------ helpers
\* the process is alive and the caller has operations left to run
Running == proc = "running" /\ nops < MaxOps

LiveConts  == {c \in ContIds : cont[c].st = "live"}
FreeHandle == {h \in HandleIds : hnd[h].st = "none"}
LiveHandles == {h \in HandleIds : hnd[h].st = "live"}
\* the slot a new object takes: the lowest unused one
NewCont   == NewBlockId(block)
NewHandle == CHOOSE h \in FreeHandle : \A x \in FreeHandle : h <= x

\* address of val::small_storage of container c (never a heap address)
SmallStorage(c) == 0 - c

\* a storage selection that does use the inline buffer for values that fit
emplacement_ptr_inline(c, dataSize) ==
    IF dataSize <= SizeOf("Circle") THEN SmallStorage(c) ELSE NullPtr

\* val::emplacement_ptr: returns nullptr before looking at dataSize
emplacement_ptr(c, dataSize) == NullPtr

\* -------------------------------------------------------------- ptr internals
\* ptr::ptr(block *, size_t, op_sig) and ptr::ptr(descriptor_t const &):
\* store the descriptor, then increment its block
ptr_ctor(bl, d) == increment(bl, d.block_ptr)

\* ptr::~ptr: get_descriptor, then decrement its block
ptr_dtor(bl, d) == decrement(bl, d.block_ptr)

\* ptr::operator-> : block.data + upcast_offset, as (object address, byte offset)
Deref(bl, d) == [addr |-> bl[d.block_ptr].data, off |-> d.upcast_offset]

\* the dereference of a T handle is defined only when it lands on the T
\* sub-object of a live value
DerefDefined(bl, ob, d, T) ==
    LET a == bl[d.block_ptr].data IN
    /\ bl[d.block_ptr].st = "live"
    /\ a # NullPtr
    /\ ob[a].st = "live"
    /\ IsBaseOf(T, ob[a].type)
    /\ d.upcast_offset = Disp(ob[a].type, T)

\* ptr::clone(upcast_offset, placement)
ptr_clone(bl, ob, d, upcast_offset, placement) ==
    LET value == bl[d.block_ptr].data IN
    IF CloneThrows(d.op_ptr)
    THEN [status |-> "logic_error", block |-> bl, obj |-> ob, desc |-> NoDesc]
    ELSE LET cloned == IF placement = NullPtr THEN CloneAddr(ob, value) ELSE placement
             b == NewBlockId(bl)
         IN [status |-> "ok",
             block  |-> NewBlock(bl, b, cloned),
             obj    |-> clone_impl(ob, cloned, d.op_ptr, value),
             desc   |-> [block_ptr |-> b,
                         upcast_offset |-> (d.upcast_offset + upcast_offset) % SizeMod,
                         op_ptr |-> d.op_ptr]]

\* ptr::get_size_of_data
get_size_of_data(d) == SizeOf(d.op_ptr)

\* the default SmallStorageSize of val<T>: small_storage_size<16, T> = sizeof(T)
SmallStorageSize(T) == SizeOf(T)

\* ------------------------------------------------------------ val operations
\* val(U const &) / val(U &&), U = T or U derived from T:
\* construct(v), then the private val(U *)
ValConstruct(T, U, v) ==
    /\ Running /\ CanAlloc
    /\ IsBaseOf(T, U) /\ U = concrete
    /\ LET c   == NewCont
           p   == emplacement_ptr(c, SizeOf(U))
           o   == IF p = NullPtr THEN NewObjId(obj) ELSE p
           b   == NewBlockId(block)
           d   == [block_ptr |-> b, upcast_offset |-> compute_upcast_offset(T, U), op_ptr |-> U]
       IN /\ obj'   = NewObj(obj, o, U, v)
          /\ block' = ptr_ctor(NewBlock(block, b, o), d)
          /\ cont'  = [cont EXCEPT ![c] = [st |-> "live", T |-> T, desc |-> d]]
          /\ last'  = Last("val_construct", "ok", c, 0, U)
    /\ UNCHANGED <<hnd, proc, concrete>>
    /\ nops' = nops + 1 /\ UNCHANGED cvars

\* explicit val(T * v): takes ownership of v; v may be null
ValFromPtr(T, isNull, v) ==
    /\ Running /\ CanAlloc
    /\ T = concrete
    /\ LET c == NewCont
           o == IF isNull THEN NullPtr ELSE NewObjId(obj)
           b == NewBlockId(block)
           d == [block_ptr |-> b, upcast_offset |-> 0, op_ptr |-> T]
       IN IF BlockCtorThrows(o)
          THEN /\ last' = Last("val_from_ptr", "invalid_argument", 0, 0, T)
               /\ UNCHANGED <<block, obj, cont>>
          ELSE /\ obj'   = NewObj(obj, o, T, v)
               /\ block' = ptr_ctor(NewBlock(block, b, o), d)
               /\ cont'  = [cont EXCEPT ![c] = [st |-> "live", T |-> T, desc |-> d]]
               /\ last'  = Last("val_from_ptr", "ok", c, o, T)
    /\ UNCHANGED <<hnd, proc, concrete>>
    /\ nops' = nops + 1 /\ UNCHANGED cvars

\* the three cloning constructors share this body: data(other.data.clone(off, placement))
ValCloneInto(op, src, T, off, placement) ==
    LET c == NewCont
        r == ptr_clone(block, obj, cont[src].desc, off, placement)
    IN IF r.status # "ok"
       THEN /\ last' = Last(op, r.status, 0, src, T)
            /\ UNCHANGED <<block, obj, cont>>
       ELSE /\ obj'   = r.obj
            /\ block' = ptr_ctor(r.block, r.desc)
            /\ cont'  = [cont EXCEPT ![c] = [st |-> "live", T |-> T, desc |-> r.desc]]
            /\ last'  = Last(op, "ok", c, src, T)

\* val(val const & other)
ValCopy(src) ==
    /\ Running /\ CanAlloc
    /\ src \in LiveConts
    /\ ValCloneInto("val_copy", src, cont[src].T, 0,
                    emplacement_ptr(NewCont, SmallStorageSize(cont[src].T)))
    /\ UNCHANGED <<hnd, proc, concrete>>
    /\ nops' = nops + 1 /\ UNCHANGED cvars

\* val(val<U> const & other), T a proper base of U
ValWiden(src, T) ==
    /\ Running /\ CanAlloc
    /\ src \in LiveConts
    /\ IsBaseOf(T, cont[src].T) /\ T # cont[src].T
    /\ ValCloneInto("val_widen", src, T, compute_upcast_offset(T, cont[src].T),
                    emplacement_ptr(NewCont, get_size_of_data(cont[src].desc)))
    /\ UNCHANGED <<hnd, proc, concrete>>
    /\ nops' = nops + 1 /\ UNCHANGED cvars

\* explicit val(val<U> const & other), U a proper base of T
ValNarrow(src, T) ==
    /\ Running /\ CanAlloc
    /\ src \in LiveConts
    /\ IsBaseOf(cont[src].T, T) /\ T # cont[src].T
    /\ ValCloneInto("val_narrow", src, T, compute_upcast_offset(T, cont[src].T),
                    emplacement_ptr(NewCont, get_size_of_data(cont[src].desc)))
    /\ UNCHANGED <<hnd, proc, concrete>>
    /\ nops' = nops + 1 /\ UNCHANGED cvars

\* a destructor that tolerates one dangling handle
DtorAborts_late(count) == count > 2

\* the test of ~val that decides between abort() and releasing the value
DtorAborts(count) == count # 1

\* val::~val, then the destructor of the member data
ValDestroy(c) ==
    /\ Running
    /\ c \in LiveConts
    /\ LET d      == cont[c].desc
           b      == d.block_ptr
           buffer == block[b].data
           bl1    == [block EXCEPT ![b].data = NullPtr]
       IN IF DtorAborts(bl1[b].count)
          THEN /\ proc'  = "aborted"
               /\ block' = bl1
               /\ last'  = Last("val_dtor", "abort", c, 0, cont[c].T)
               /\ UNCHANGED <<obj, cont>>
          ELSE /\ obj'   = IF buffer = SmallStorage(c) THEN destruct(obj, buffer)
                                                       ELSE delete_(obj, buffer)
               /\ block' = ptr_dtor(bl1, d)
               /\ cont'  = [cont EXCEPT ![c] = NoCont]
               /\ last'  = Last("val_dtor", "ok", c, 0, cont[c].T)
               /\ UNCHANGED proc
    /\ UNCHANGED <<hnd, concrete>>
    /\ nops' = nops + 1 /\ UNCHANGED cvars

\* a write through val::operator-> / operator*
ValWrite(c, v) ==
    /\ Running
    /\ c \in LiveConts
    /\ DerefDefined(block, obj, cont[c].desc, cont[c].T)
    /\ obj'  = [obj EXCEPT ![Deref(block, cont[c].desc).addr].v = v]
    /\ last' = Last("val_write", "ok", c, 0, cont[c].T)
    /\ UNCHANGED <<block, cont, hnd, proc, concrete>>
    /\ nops' = nops + 1 /\ UNCHANGED cvars

\* val::clone(): data.clone(0, nullptr), the value handed out in a unique_ptr
ValClone(c) ==
    /\ Running /\ CanAlloc
    /\ c \in LiveConts
    /\ LET r == ptr_clone(block, obj, cont[c].desc, 0, NullPtr)
       IN IF r.status # "ok"
          THEN /\ last' = Last("val_clone", r.status, 0, c, cont[c].T)
               /\ UNCHANGED <<block, obj>>
          ELSE /\ obj'   = r.obj
               /\ block' = r.block
               /\ last'  = Last("val_clone", "ok", r.desc.block_ptr, c, cont[c].T)
    /\ UNCHANGED <<cont, hnd, proc, concrete>>
    /\ nops' = nops + 1 /\ UNCHANGED cvars

\* ------------------------------------------------------------ ptr operations
ConcreteOf(bl, ob, d) == ob[bl[d.block_ptr].data].type

\* descriptor.upcast_offset += compute_upcast_offset<T, U>()
WidenDesc(d, T, U) ==
    [d EXCEPT !.upcast_offset = (@ + compute_upcast_offset(T, U)) % SizeMod]

\* descriptor.upcast_offset -= compute_upcast_offset<T, U>()
NarrowDesc(d, T, U) ==
    [d EXCEPT !.upcast_offset = (@ + SizeMod - compute_upcast_offset(T, U)) % SizeMod]

\* a handle is built in the lowest unused slot
MakeHandle(op, T, d, src) ==
    /\ hnd'   = [hnd EXCEPT ![NewHandle] = [st |-> "live", T |-> T, desc |-> d]]
    /\ block' = increment(block, d.block_ptr)
    /\ last'  = Last(op, "ok", NewHandle, src, T)

\* ptr(ptr const & other)
PtrCopy(src) ==
    /\ Running /\ FreeHandle # {}
    /\ src \in LiveHandles
    /\ MakeHandle("ptr_copy", hnd[src].T, hnd[src].desc, src)
    /\ UNCHANGED <<obj, cont, proc, concrete>>
    /\ nops' = nops + 1 /\ UNCHANGED cvars

\* ptr(ptr<U> const & other), T a proper base of U
PtrWiden(src, T) ==
    /\ Running /\ FreeHandle # {}
    /\ src \in LiveHandles
    /\ IsBaseOf(T, hnd[src].T) /\ T # hnd[src].T
    /\ MakeHandle("ptr_widen", T, WidenDesc(hnd[src].desc, T, hnd[src].T), src)
    /\ UNCHANGED <<obj, cont, proc, concrete>>
    /\ nops' = nops + 1 /\ UNCHANGED cvars

\* ptr(val<U> const & other), T = U or T a base of U
PtrFromVal(c, T) ==
    /\ Running /\ FreeHandle # {}
    /\ c \in LiveConts
    /\ IsBaseOf(T, cont[c].T)
    /\ MakeHandle("ptr_from_val", T, WidenDesc(cont[c].desc, T, cont[c].T), c)
    /\ UNCHANGED <<obj, cont, proc, concrete>>
    /\ nops' = nops + 1 /\ UNCHANGED cvars

\* a throw-expression without operand: rethrows the exception being handled,
\* and calls std::terminate when none is
ThrowNoOperand(inCatch) == IF inCatch THEN "rethrow" ELSE "terminate"

\* the test of the narrowing constructor from a val: dynamic_cast<T*>(&*other) == nullptr
NarrowFromValFails(C, T) == ~DynamicCastOk(C, T)

\* the narrowing constructor from a ptr evaluates dynamic_cast<U*>(&*other) on a
\* U*, which is the identity, and never looks at the result
NarrowFromPtrFails(C, T) == FALSE

\* explicit ptr(val<U> const & other), U a proper base of T
PtrNarrowFromVal(c, T, inCatch) ==
    /\ Running /\ FreeHandle # {}
    /\ c \in LiveConts
    /\ IsBaseOf(cont[c].T, T) /\ T # cont[c].T
    /\ DerefDefined(block, obj, cont[c].desc, cont[c].T)
    /\ IF NarrowFromValFails(ConcreteOf(block, obj, cont[c].desc), T)
       THEN /\ last' = Last("ptr_narrow_val", ThrowNoOperand(inCatch), 0, c, T)
            /\ proc' = IF inCatch THEN proc ELSE "terminated"
            /\ UNCHANGED <<block, hnd>>
       ELSE /\ MakeHandle("ptr_narrow_val", T, NarrowDesc(cont[c].desc, T, cont[c].T), c)
            /\ UNCHANGED proc
    /\ UNCHANGED <<obj, cont, concrete>>
    /\ nops' = nops + 1 /\ UNCHANGED cvars

\* explicit ptr(ptr<U> const & other), U a proper base of T
PtrNarrowFromPtr(src, T) ==
    /\ Running /\ FreeHandle # {}
    /\ src \in LiveHandles
    /\ IsBaseOf(hnd[src].T, T) /\ T # hnd[src].T
    /\ DerefDefined(block, obj, hnd[src].desc, hnd[src].T)
    /\ IF NarrowFromPtrFails(ConcreteOf(block, obj, hnd[src].desc), T)
       THEN /\ last' = Last("ptr_narrow_ptr", "fail", 0, src, T)
            /\ UNCHANGED <<block, hnd>>
       ELSE MakeHandle("ptr_narrow_ptr", T, NarrowDesc(hnd[src].desc, T, hnd[src].T), src)
    /\ UNCHANGED <<obj, cont, proc, concrete>>
    /\ nops' = nops + 1 /\ UNCHANGED cvars

\* the body of both operator= : increment the new block, exchange, decrement the old
AssignBody(bl, old, new) == decrement(increment(bl, new.block_ptr), old.block_ptr)

\* ptr & operator=(ptr other): other is a copy of the right-hand side, destroyed
\* when the call returns
PtrAssign(h, src) ==
    /\ Running
    /\ h \in LiveHandles /\ src \in LiveHandles
    /\ hnd[h].T = hnd[src].T
    /\ LET other == hnd[src].desc
           bl1   == ptr_ctor(block, other)
           bl2   == AssignBody(bl1, hnd[h].desc, other)
       IN /\ block' = ptr_dtor(bl2, other)
          /\ hnd'   = [hnd EXCEPT ![h].desc = other]
    /\ last' = Last("ptr_assign", "ok", h, src, hnd[h].T)
    /\ UNCHANGED <<obj, cont, proc, concrete>>
    /\ nops' = nops + 1 /\ UNCHANGED cvars

\* ptr & operator=(ptr<U> other), T a proper base of U
PtrAssignWiden(h, src) ==
    /\ Running
    /\ h \in LiveHandles /\ src \in LiveHandles
    /\ IsBaseOf(hnd[h].T, hnd[src].T) /\ hnd[h].T # hnd[src].T
    /\ LET other == hnd[src].desc
           new   == WidenDesc(other, hnd[h].T, hnd[src].T)
           bl1   == ptr_ctor(block, other)
           bl2   == AssignBody(bl1, hnd[h].desc, new)
       IN /\ block' = ptr_dtor(bl2, other)
          /\ hnd'   = [hnd EXCEPT ![h].desc = new]
    /\ last' = Last("ptr_assign_widen", "ok", h, src, hnd[h].T)
    /\ UNCHANGED <<obj, cont, proc, concrete>>
    /\ nops' = nops + 1 /\ UNCHANGED cvars

\* p = v with v a val<U>: the converting constructor ptr(val<U> const &) builds
\* the argument of operator=(ptr other)
PtrAssignFromVal(h, c) ==
    /\ Running
    /\ h \in LiveHandles /\ c \in LiveConts
    /\ IsBaseOf(hnd[h].T, cont[c].T)
    /\ LET other == WidenDesc(cont[c].desc, hnd[h].T, cont[c].T)
           bl1   == ptr_ctor(block, other)
           bl2   == AssignBody(bl1, hnd[h].desc, other)
       IN /\ block' = ptr_dtor(bl2, other)
          /\ hnd'   = [hnd EXCEPT ![h].desc = other]
    /\ last' = Last("ptr_assign_val", "ok", h, c, hnd[h].T)
    /\ UNCHANGED <<obj, cont, proc, concrete>>
    /\ nops' = nops + 1 /\ UNCHANGED cvars

\* ~ptr()
PtrDestroy(h) ==
    /\ Running
    /\ h \in LiveHandles
    /\ block' = ptr_dtor(block, hnd[h].desc)
    /\ hnd'   = [hnd EXCEPT ![h] = NoHandle]
    /\ last'  = Last("ptr_dtor", "ok", h, 0, hnd[h].T)
    /\ UNCHANGED <<obj, cont, proc, concrete>>
    /\ nops' = nops + 1 /\ UNCHANGED cvars

Init ==
    /\ block = [b \in BlockIds |-> NoBlock]
    /\ obj   = [o \in ObjAddrs |-> NoObj]
    /\ cont  = [c \in ContIds |-> NoCont]
    /\ hnd   = [h \in HandleIds |-> NoHandle]
    /\ proc  = "running"
    /\ last  = Last("init", "ok", 0, 0, "none")
    /\ concrete \in Types
    /\ nops = 0
    /\ pc   = [t \in Threads |-> "idle"]
    /\ loc  = [t \in Threads |-> NoLocals]
    /\ mtx  = [h \in HandleIds |-> 0]
    /\ own  = [h \in HandleIds |-> 0]

Next ==
    \/ \E T \in Types, U \in Types, v \in Values : ValConstruct(T, U, v)
    \/ \E T \in Types, isNull \in BOOLEAN, v \in Values : ValFromPtr(T, isNull, v)
    \/ \E c \in ContIds : ValCopy(c)
    \/ \E c \in ContIds, T \in Types : ValWiden(c, T)
    \/ \E c \in ContIds, T \in Types : ValNarrow(c, T)
    \/ \E c \in ContIds : ValDestroy(c)
    \/ \E c \in ContIds, v \in Values : ValWrite(c, v)
    \/ \E c \in ContIds : ValClone(c)
    \/ \E h \in HandleIds : PtrCopy(h)
    \/ \E h \in HandleIds, T \in Types : PtrWiden(h, T)
    \/ \E c \in ContIds, T \in Types : PtrFromVal(c, T)
    \/ \E c \in ContIds, T \in Types, inCatch \in BOOLEAN : PtrNarrowFromVal(c, T, inCatch)
    \/ \E h \in HandleIds, T \in Types : PtrNarrowFromPtr(h, T)
    \/ \E h \in HandleIds, s \in HandleIds : PtrAssign(h, s)
    \/ \E h \in HandleIds, s \in HandleIds : PtrAssignWiden(h, s)
    \/ \E h \in HandleIds, c \in ContIds : PtrAssignFromVal(h, c)
    \/ \E h \in HandleIds : PtrDestroy(h)

Spec == Init /\ [][Next]_vars

\* ======================================================================
\* SpecConc: the same operations, one shared-memory access per step
\* ======================================================================
\* The caller built two val<Circle> and one ptr<Circle> on each; the handles
\* are shared by all threads.
ConcInit ==
    LET d1 == [block_ptr |-> 1, upcast_offset |-> 0, op_ptr |-> "Circle"]
        d2 == [block_ptr |-> 2, upcast_offset |-> 0, op_ptr |-> "Circle"]
        ob == NewObj(NewObj([o \in ObjAddrs |-> NoObj], 1, "Circle", 5), 2, "Circle", 5)
        b0 == NewBlock(NewBlock([b \in BlockIds |-> NoBlock], 1, 1), 2, 2)
        \* each block: the internal handle of its val, then the external one
        bl == ptr_ctor(ptr_ctor(ptr_ctor(ptr_ctor(b0, d1), d2), d1), d2)
    IN /\ obj   = ob
       /\ block = bl
       /\ cont  = [c \in ContIds |->
                     IF c = 1 THEN [st |-> "live", T |-> "Circle", desc |-> d1]
                     ELSE IF c = 2 THEN [st |-> "live", T |-> "Circle", desc |-> d2]
                     ELSE NoCont]
       /\ hnd   = [h \in HandleIds |->
                     IF h = 1 THEN [st |-> "live", T |-> "Circle", desc |-> d1]
                     ELSE IF h = 2 THEN [st |-> "live", T |-> "Circle", desc |-> d2]
                     ELSE NoHandle]
       /\ proc  = "running"
       /\ last  = Last("init", "ok", 0, 0, "none")
       /\ concrete = "Circle"
       /\ nops = 0
       /\ pc   = [t \in Threads |-> "idle"]
       /\ loc  = [t \in Threads |-> NoLocals]
       /\ mtx  = [h \in HandleIds |-> 0]
       /\ own  = [h \in HandleIds |-> 0]

\* handles a thread may read: the shared ones and its own
Readable(t) == {h \in LiveHandles : own[h] \in {0, t}}
Shared      == {h \in LiveHandles : own[h] = 0}

Goto(t, l)  == pc' = [pc EXCEPT ![t] = l]
Alive       == proc = "running"
StartOp(t)  == Alive /\ pc[t] = "idle" /\ nops < MaxConcOps /\ nops' = nops + 1

\* ---- ptr(ptr const & other): get_descriptor (lock, read, unlock), increment
CcLock(t, src) ==
    /\ StartOp(t) /\ src \in Readable(t) /\ FreeHandle # {}
    /\ mtx[src] = 0
    /\ mtx' = [mtx EXCEPT ![src] = t]
    /\ hnd' = [hnd EXCEPT ![NewHandle] = [st |-> "building", T |-> hnd[src].T, desc |-> NoDesc]]
    /\ own' = [own EXCEPT ![NewHandle] = t]
    /\ loc' = [loc EXCEPT ![t] = [NoLocals EXCEPT !.dst = NewHandle, !.src = src]]
    /\ Goto(t, "cc_read")
    /\ UNCHANGED <<block, obj, cont, proc, last, concrete>>

CcRead(t) ==
    /\ Alive /\ pc[t] = "cc_read"
    /\ loc' = [loc EXCEPT ![t].d = hnd[loc[t].src].desc]
    /\ hnd' = [hnd EXCEPT ![loc[t].dst].desc = hnd[loc[t].src].desc]
    /\ mtx' = [mtx EXCEPT ![loc[t].src] = 0]
    /\ Goto(t, "cc_inc")
    /\ UNCHANGED <<block, obj, cont, proc, last, concrete, nops, own>>

CcInc(t) ==
    /\ Alive /\ pc[t] = "cc_inc"
    /\ block' = increment(block, loc[t].d.block_ptr)
    /\ hnd' = [hnd EXCEPT ![loc[t].dst].st = "live"]
    /\ loc' = [loc EXCEPT ![t] = NoLocals]
    /\ Goto(t, "idle")
    /\ UNCHANGED <<obj, cont, proc, last, concrete, nops, mtx, own>>

\* ---- ptr & operator=(ptr other) on a shared handle h
\* the by-value argument other is copy-constructed from src first
AsLockSrc(t, h, src) ==
    /\ StartOp(t) /\ h \in Shared /\ src \in Readable(t)
    /\ mtx[src] = 0
    /\ mtx' = [mtx EXCEPT ![src] = t]
    /\ loc' = [loc EXCEPT ![t] = [NoLocals EXCEPT !.dst = h, !.src = src]]
    /\ Goto(t, "as_read_src")
    /\ UNCHANGED <<block, obj, cont, hnd, proc, last, concrete, own>>

\* a get_descriptor that returns with the source's lock still held
AsReadSrc_holding(t) ==
    /\ Alive /\ pc[t] = "as_read_src"
    /\ loc' = [loc EXCEPT ![t].d = hnd[loc[t].src].desc]
    /\ Goto(t, "as_inc_other")
    /\ UNCHANGED <<block, obj, cont, hnd, proc, last, concrete, nops, mtx, own>>

\* other's copy constructor: d = src.get_descriptor(), the lock released on return
AsReadSrc(t) ==
    /\ Alive /\ pc[t] = "as_read_src"
    /\ loc' = [loc EXCEPT ![t].d = hnd[loc[t].src].desc]
    /\ mtx' = [mtx EXCEPT ![loc[t].src] = 0]
    /\ Goto(t, "as_inc_other")
    /\ UNCHANGED <<block, obj, cont, hnd, proc, last, concrete, nops, own>>

\* other's copy constructor increments
AsIncOther(t) ==
    /\ Alive /\ pc[t] = "as_inc_other"
    /\ block' = increment(block, loc[t].d.block_ptr)
    /\ Goto(t, "as_inc_new")
    /\ UNCHANGED <<obj, cont, hnd, proc, last, concrete, nops, loc, mtx, own>>

\* an assignment that installs the new descriptor without counting it first
AsIncNew_skipped(t) ==
    /\ Alive /\ pc[t] = "as_inc_new"
    /\ Goto(t, "as_lock")
    /\ UNCHANGED <<block, obj, cont, hnd, proc, last, concrete, nops, loc, mtx, own>>

\* new_descriptor = other.get_descriptor(); new_descriptor.block_ptr->increment()
AsIncNew(t) ==
    /\ Alive /\ pc[t] = "as_inc_new"
    /\ block' = increment(block, loc[t].d.block_ptr)
    /\ Goto(t, "as_lock")
    /\ UNCHANGED <<obj, cont, hnd, proc, last, concrete, nops, loc, mtx, own>>

\* exchange_descriptor: lock
AsLock(t) ==
    /\ Alive /\ pc[t] = "as_lock"
    /\ mtx[loc[t].dst] = 0
    /\ mtx' = [mtx EXCEPT ![loc[t].dst] = t]
    /\ Goto(t, "as_xchg")
    /\ UNCHANGED <<block, obj, cont, hnd, proc, last, concrete, nops, loc, own>>

\* an exchange that hands back the descriptor it installs, losing the old one
AsXchg_lost(t) ==
    /\ Alive /\ pc[t] = "as_xchg"
    /\ loc' = [loc EXCEPT ![t].old = loc[t].d]
    /\ hnd' = [hnd EXCEPT ![loc[t].dst].desc = loc[t].d]
    /\ mtx' = [mtx EXCEPT ![loc[t].dst] = 0]
    /\ Goto(t, "as_dec_old")
    /\ UNCHANGED <<block, obj, cont, proc, last, concrete, nops, own>>

\* exchange_descriptor: saved = descriptor; descriptor = v; unlock
AsXchg(t) ==
    /\ Alive /\ pc[t] = "as_xchg"
    /\ loc' = [loc EXCEPT ![t].old = hnd[loc[t].dst].desc]
    /\ hnd' = [hnd EXCEPT ![loc[t].dst].desc = loc[t].d]
    /\ mtx' = [mtx EXCEPT ![loc[t].dst] = 0]
    /\ Goto(t, "as_dec_old")
    /\ UNCHANGED <<block, obj, cont, proc, last, concrete, nops, own>>

\* old_descriptor.block_ptr->decrement()
AsDecOld(t) ==
    /\ Alive /\ pc[t] = "as_dec_old"
    /\ block' = decrement(block, loc[t].old.block_ptr)
    /\ Goto(t, "as_dec_other")
    /\ UNCHANGED <<obj, cont, hnd, proc, last, concrete, nops, loc, mtx, own>>

\* other goes out of scope: ~ptr
AsDecOther(t) ==
    /\ Alive /\ pc[t] = "as_dec_other"
    /\ block' = ptr_dtor(block, loc[t].d)
    /\ loc' = [loc EXCEPT ![t] = NoLocals]
    /\ Goto(t, "idle")
    /\ UNCHANGED <<obj, cont, hnd, proc, last, concrete, nops, mtx, own>>

\* ---- ~ptr() of a handle local to the thread: get_descriptor, decrement
DhRead(t, h) ==
    /\ StartOp(t) /\ h \in LiveHandles /\ own[h] = t
    /\ mtx[h] = 0
    /\ loc' = [loc EXCEPT ![t] = [NoLocals EXCEPT !.dst = h, !.d = hnd[h].desc]]
    /\ hnd' = [hnd EXCEPT ![h].st = "building"]
    /\ Goto(t, "dh_dec")
    /\ UNCHANGED <<block, obj, cont, proc, last, concrete, mtx, own>>

DhDec(t) ==
    /\ Alive /\ pc[t] = "dh_dec"
    /\ block' = ptr_dtor(block, loc[t].d)
    /\ hnd' = [hnd EXCEPT ![loc[t].dst] = NoHandle]
    /\ own' = [own EXCEPT ![loc[t].dst] = 0]
    /\ loc' = [loc EXCEPT ![t] = NoLocals]
    /\ Goto(t, "idle")
    /\ UNCHANGED <<obj, cont, proc, last, concrete, nops, mtx>>

\* ---- ~val(): d = data.get_descriptor(); buffer = b.data.exchange(nullptr)
DvXchg(t, c) ==
    /\ Alive /\ pc[t] = "idle" /\ c \in LiveConts
    /\ cont' = [cont EXCEPT ![c].st = "dying"]
    /\ loc' = [loc EXCEPT ![t] = [NoLocals EXCEPT !.dst = c, !.d = cont[c].desc,
                                                  !.src = block[cont[c].desc.block_ptr].data]]
    /\ block' = [block EXCEPT ![cont[c].desc.block_ptr].data = NullPtr]
    /\ Goto(t, "dv_check")
    /\ UNCHANGED <<obj, hnd, proc, last, concrete, nops, mtx, own>>

\* if (b.count != 1) abort(); else the value is released
DvCheck(t) ==
    /\ Alive /\ pc[t] = "dv_check"
    /\ IF DtorAborts(block[loc[t].d.block_ptr].count)
       THEN /\ proc' = "aborted"
            /\ last' = Last("val_dtor", "abort", loc[t].dst, 0, cont[loc[t].dst].T)
            /\ UNCHANGED <<obj, pc>>
       ELSE /\ obj' = IF loc[t].src = SmallStorage(loc[t].dst)
                      THEN destruct(obj, loc[t].src) ELSE delete_(obj, loc[t].src)
            /\ Goto(t, "dv_dec")
            /\ UNCHANGED <<proc, last>>
    /\ UNCHANGED <<block, cont, hnd, concrete, nops, loc, mtx, own>>

\* the member data is destroyed: ~ptr
DvDec(t) ==
    /\ Alive /\ pc[t] = "dv_dec"
    /\ block' = ptr_dtor(block, loc[t].d)
    /\ cont' = [cont EXCEPT ![loc[t].dst] = NoCont]
    /\ loc' = [loc EXCEPT ![t] = NoLocals]
    /\ Goto(t, "idle")
    /\ UNCHANGED <<obj, hnd, proc, last, concrete, nops, mtx, own>>

ConcNext ==
    \/ \E t \in Threads, h \in HandleIds : CcLock(t, h)
    \/ \E t \in Threads : CcRead(t)
    \/ \E t \in Threads : CcInc(t)
    \/ \E t \in Threads, h \in HandleIds, s \in HandleIds : AsLockSrc(t, h, s)
    \/ \E t \in Threads : AsReadSrc(t)
    \/ \E t \in Threads : AsIncOther(t)
    \/ \E t \in Threads : AsIncNew(t)
    \/ \E t \in Threads : AsLock(t)
    \/ \E t \in Threads : AsXchg(t)
    \/ \E t \in Threads : AsDecOld(t)
    \/ \E t \in Threads : AsDecOther(t)
    \/ \E t \in Threads, h \in HandleIds : DhRead(t, h)
    \/ \E t \in Threads : DhDec(t)
    \/ \E t \in Threads, c \in ContIds : DvXchg(t, c)
    \/ \E t \in Threads : DvCheck(t)
    \/ \E t \in Threads : DvDec(t)

SpecConc == ConcInit /\ [][ConcNext]_vars

\* ======================================================================
\* SpecHandles: threads run handle operations only; both containers stay alive
\* ======================================================================
\* one statement of thread t's current handle operation, or the start of one
HandleStep(t) ==
    \/ \E h \in HandleIds : CcLock(t, h)
    \/ CcRead(t)
    \/ CcInc(t)
    \/ \E h \in HandleIds, s \in HandleIds : AsLockSrc(t, h, s)
    \/ AsReadSrc(t)
    \/ AsIncOther(t)
    \/ AsIncNew(t)
    \/ AsLock(t)
    \/ AsXchg(t)
    \/ AsDecOld(t)
    \/ AsDecOther(t)
    \/ \E h \in HandleIds : DhRead(t, h)
    \/ DhDec(t)

HandleNext == \E t \in Threads : HandleStep(t)

SpecHandles == ConcInit /\ [][HandleNext]_vars

\* the scheduler keeps running some thread as long as one can take a step
SpecHandlesFair == SpecHandles /\ WF_vars(HandleNext)

\* C8 (as claimed): under every interleaving no block counter is incremented
\* or decremented after the block was freed.
C8_NoCounterUseAfterFree == \A b \in BlockIds : ~block[b].uaf

\* ======================================================================
\* Properties
\* ======================================================================
\* external handles whose descriptor references block b
ExtHandles(b) == {h \in HandleIds : hnd[h].st = "live" /\ hnd[h].desc.block_ptr = b}
DataOf(c) == block[cont[c].desc.block_ptr].data

\* C1: between operations the counter of every container's block equals the
\* number of live external handles referencing that block, plus one for the
\* container's internal handle.
C1_CountIsHandlesPlusOne ==
    \A c \in ContIds : cont[c].st = "live" =>
        LET b == cont[c].desc.block_ptr IN
        /\ block[b].st = "live"
        /\ block[b].count = Cardinality(ExtHandles(b)) + 1

\* C1 witness: an assignment has run and left a container with two external handles
C1_Witness ==
    /\ last.op = "ptr_assign"
    /\ \E c \in ContIds : /\ cont[c].st = "live"
                          /\ Cardinality(ExtHandles(cont[c].desc.block_ptr)) = 2
                          /\ block[cont[c].desc.block_ptr].count = 3

\* C2: ~val aborts exactly when an external handle references its block
\* (counter # 1); otherwise it completes, the value is released through the
\* dispatcher exactly once and the block is freed by the internal handle's
\* release taking the counter from 1 to 0.
C2_DestroyAbortsIffObserved ==
    [][last'.op = "val_dtor" =>
        LET c == last'.dst
            b == cont[c].desc.block_ptr
            o == block[b].data
        IN /\ (proc' = "aborted") <=> (ExtHandles(b) # {})
           /\ (ExtHandles(b) # {}) <=> (block[b].count # 1)
           /\ (proc' = "aborted") <=> (last'.status = "abort")
           /\ ExtHandles(b) = {} =>
                /\ last'.status = "ok"
                /\ obj[o].st = "live" /\ obj[o].ndel + obj[o].ndes = 0
                /\ obj'[o].st = "deleted" /\ obj'[o].ndel + obj'[o].ndes = 1
                /\ block[b].st = "live" /\ block[b].count = 1
                /\ block'[b].st = "freed" /\ block'[b].count = 0
                /\ cont'[c].st = "none"
    ]_vars

\* C2 witness: a container was destroyed cleanly: value deleted, block freed
C2_Witness ==
    /\ last.op = "val_dtor" /\ last.status = "ok"
    /\ block[last.dst].st = "freed"
    /\ \E o \in ObjIds : obj[o].st = "deleted" /\ obj[o].ndel = 1

\* no two live containers reference the same block or the same data address
NoAlias ==
    \A c1 \in ContIds, c2 \in ContIds :
        (c1 # c2 /\ cont[c1].st = "live" /\ cont[c2].st = "live") =>
            /\ cont[c1].desc.block_ptr # cont[c2].desc.block_ptr
            /\ DataOf(c1) # DataOf(c2)

\* C3: a copy-construction (same type, to a base, to a derived type) creates a
\* fresh block with counter 1 over fresh storage and leaves the source's block
\* and value alone; no two live containers ever share a block or a data
\* address; a write through one container changes no other container's value.
C3_CopyNeverShares ==
    [][/\ (last'.op \in {"val_copy", "val_widen", "val_narrow"} /\ last'.status = "ok") =>
            LET c == last'.dst
                s == last'.src
                b == cont'[c].desc.block_ptr
                o == block'[b].data
            IN /\ block[b].st = "unalloc" /\ block'[b].st = "live" /\ block'[b].count = 1
               /\ o # NullPtr /\ obj[o].st = "unalloc" /\ obj'[o].st = "live"
               /\ obj'[o].v = obj[DataOf(s)].v
               /\ cont'[s] = cont[s]
               /\ block'[cont[s].desc.block_ptr] = block[cont[s].desc.block_ptr]
               /\ obj'[DataOf(s)] = obj[DataOf(s)]
       /\ last'.op = "val_write" =>
            \A c \in ContIds : (cont[c].st = "live" /\ c # last'.dst) =>
                obj'[DataOf(c)] = obj[DataOf(c)]
       /\ NoAlias'
    ]_vars

\* C3 witness: the copy was written to and now differs from its source
C3_Witness ==
    /\ last.op = "val_write"
    /\ \E s \in ContIds : /\ s # last.dst /\ cont[s].st = "live"
                          /\ obj[DataOf(s)].v # obj[DataOf(last.dst)].v

\* C4 (as claimed): narrowing a handle to T succeeds exactly when the value's
\* concrete type is T or derives from T; on mismatch no handle is produced.
C4_NarrowPtrChecked ==
    last.op = "ptr_narrow_ptr" =>
        LET C == ConcreteOf(block, obj, hnd[last.src].desc) IN
        /\ (last.status = "ok") <=> DynamicCastOk(C, last.T)
        /\ ~DynamicCastOk(C, last.T) =>
              (last.dst = 0 /\ Cardinality(ExtHandles(hnd[last.src].desc.block_ptr)) + 1
                                 = block[hnd[last.src].desc.block_ptr].count)

\* C5 (as claimed): narrowing a container to a handle of T checks the concrete
\* type and, on mismatch, reports a failure the caller can recover from; the
\* process keeps running and no handle is created.
C5_NarrowValRecoverable ==
    (last.op = "ptr_narrow_val"
        /\ ~DynamicCastOk(ConcreteOf(block, obj, cont[last.src].desc), last.T)) =>
        /\ last.status \notin {"ok", "terminate"}
        /\ proc = "running"
        /\ last.dst = 0

\* C6 (as claimed): a container-to-container down-cast signals a failure when
\* the value does not support the target type, and no live container has a
\* declared type its value does not support.
C6_NarrowValChecked ==
    /\ last.op = "val_narrow" =>
          (~DynamicCastOk(ConcreteOf(block, obj, cont[last.src].desc), last.T)
              => last.status # "ok")
    /\ \A c \in ContIds : cont[c].st = "live" =>
          DynamicCastOk(ConcreteOf(block, obj, cont[c].desc), cont[c].T)

\* the operations that build or assign a handle of a base type
WidenOps == {"ptr_widen", "ptr_from_val", "ptr_assign_widen", "ptr_assign_val"}
FromHandle(op) == op \in {"ptr_widen", "ptr_assign_widen"}
IsAssign(op)   == op \in {"ptr_assign_widen", "ptr_assign_val", "ptr_assign"}

\* the declared type of the source of the step that ends in last'
SourceType == IF FromHandle(last'.op) THEN hnd[last'.src].T ELSE cont[last'.src].T

\* what a widening step must do; bump(h, b) is the change of the source block's counter
WideningStep(bump(_, _)) ==
    (last'.op \in WidenOps /\ last'.T # SourceType) =>
        LET h  == last'.dst
            s  == last'.src
            T  == last'.T
            U  == IF FromHandle(last'.op) THEN hnd[s].T ELSE cont[s].T
            sd == IF FromHandle(last'.op) THEN hnd[s].desc ELSE cont[s].desc
            b  == sd.block_ptr
        IN /\ last'.status = "ok"
           /\ block'[b].st = "live"
           /\ block'[b].count = block[b].count + bump(h, b)
           /\ IF FromHandle(last'.op) THEN hnd'[s] = hnd[s] ELSE cont'[s] = cont[s]
           /\ hnd'[h].st = "live" /\ hnd'[h].T = T
           /\ hnd'[h].desc.block_ptr = b
           /\ hnd'[h].desc.upcast_offset = (sd.upcast_offset + Disp(U, T)) % SizeMod
           /\ DerefDefined(block, obj, sd, U) =>
                 /\ DerefDefined(block', obj', hnd'[h].desc, T)
                 /\ Deref(block', hnd'[h].desc).addr = Deref(block, sd).addr

\* C7 (as claimed): a widening construction or assignment never fails, raises
\* the source block's counter by exactly one, leaves the source unchanged and
\* yields a handle on the T sub-object of the object the source points into.
BumpOne(h, b) == 1
C7_WideningAlwaysAddsOne == [][WideningStep(BumpOne)]_vars

\* C7 (amended): as above, except that an assignment whose target already
\* referenced the source's block leaves that counter as it was, because the
\* target's previous reference to the same block is released.
BumpUnlessSameBlock(h, b) ==
    IF IsAssign(last'.op) /\ hnd[h].desc.block_ptr = b THEN 0 ELSE 1
C7_Widening == [][WideningStep(BumpUnlessSameBlock)]_vars

\* C7 witness: a Circle handle was widened to a Shape handle at displacement 1
C7_Witness ==
    /\ last.op = "ptr_widen" /\ last.T = "Shape"
    /\ hnd[last.src].T = "Circle"
    /\ hnd[last.dst].desc.upcast_offset = 1
    /\ block[hnd[last.dst].desc.block_ptr].count = 3

\* C9: constructing a container from a null pointer fails with invalid_argument
\* and leaves no block, handle or counter changed; every block is created
\* with a non-null data address.
C9_NullPointerRejected ==
    [][/\ (last'.op = "val_from_ptr" /\ last'.src = NullPtr) =>
            /\ last'.status = "invalid_argument"
            /\ block' = block /\ obj' = obj /\ cont' = cont /\ hnd' = hnd
            /\ proc' = "running"
       /\ \A b \in BlockIds : (block[b].st = "unalloc" /\ block'[b].st # "unalloc") =>
            block'[b].data # NullPtr
    ]_vars

\* C9 witness: a null-pointer construction was rejected while a container lives
C9_Witness ==
    /\ last.op = "val_from_ptr" /\ last.status = "invalid_argument"
    /\ \E c \in ContIds : cont[c].st = "live"

\* C11: a copy-construction or a widening container construction binds the new
\* container to the source's dispatcher and copies the value unchanged: the
\* copy's concrete type, reported size and content are the source's.  Along
\* every chain of such constructions the dispatcher, and the type of the stored
\* value, stay those of the concrete type the first container was built from.
C11_CloneKeepsConcreteType ==
    [][/\ (last'.op \in {"val_copy", "val_widen"} /\ last'.status = "ok") =>
            LET c == last'.dst
                s == last'.src
                n == block'[cont'[c].desc.block_ptr].data
            IN /\ cont'[c].desc.op_ptr = cont[s].desc.op_ptr
               /\ obj'[n].type = obj[DataOf(s)].type
               /\ obj'[n].v = obj[DataOf(s)].v
               /\ get_size_of_data(cont'[c].desc) = SizeOf(obj[DataOf(s)].type)
       /\ \A c \in ContIds : (cont'[c].st = "live" /\ proc' = "running") =>
            /\ cont'[c].desc.op_ptr = concrete'
            /\ obj'[block'[cont'[c].desc.block_ptr].data].type = concrete'
    ]_vars

\* C11 witness: the third container of a run is a copy of a val<Shape> that
\* holds a Circle; the copy holds a Circle too, with the same content
C11_Witness ==
    /\ last.op = "val_copy" /\ last.status = "ok"
    /\ concrete = "Circle" /\ cont[last.dst].T = "Shape"
    /\ cont[last.dst].desc.op_ptr = "Circle"
    /\ obj[DataOf(last.dst)].type = "Circle"
    /\ cont[last.src].T = "Shape" /\ last.src > 1
    /\ obj[DataOf(last.dst)].v = 10 /\ obj[DataOf(last.src)].v = 10

\* the offset a descriptor of declared type T must carry: the displacement of
\* the T sub-object inside the concrete object its block holds
OffsetExact(d, T) ==
    LET C == ConcreteOf(block, obj, d) IN
    IsBaseOf(T, C) => d.upcast_offset = Disp(C, T)

\* C12 (as claimed): while the program runs, the offset of every live handle,
\* external or internal to a container, whose declared type the stored value
\* supports is the displacement from block.data to the sub-object of that
\* type; so a handle widened from U to T and narrowed back to U has its
\* original offset again.
C12_OffsetIsDisplacement ==
    proc = "running" =>
        /\ \A c \in ContIds : cont[c].st = "live" => OffsetExact(cont[c].desc, cont[c].T)
        /\ \A h \in HandleIds : hnd[h].st = "live" => OffsetExact(hnd[h].desc, hnd[h].T)

\* C13: in every assignment to a handle the counter of the new block is
\* incremented first, no counter is touched while the descriptor is exchanged,
\* and only then is the counter of the replaced descriptor's block decremented;
\* that decrement starts from a counter of at least 2, so no step of an
\* assignment (self-assignment and assignment between handles of one block
\* included) takes a counter to zero or frees a block.
C13_IncrementBeforeDecrement ==
    [][/\ \A t \in Threads :
            LET new == loc[t].d.block_ptr
                old == loc[t].old.block_ptr
            IN /\ (pc[t] = "as_inc_new" /\ pc'[t] # pc[t]) =>
                    /\ pc'[t] = "as_lock"
                    /\ block'[new].count = block[new].count + 1
                    /\ \A b \in BlockIds \ {new} : block'[b] = block[b]
               /\ (pc[t] \in {"as_lock", "as_xchg"} /\ pc'[t] # pc[t]) =>
                    /\ block' = block
                    /\ pc'[t] = IF pc[t] = "as_lock" THEN "as_xchg" ELSE "as_dec_old"
               /\ (pc[t] = "as_dec_old" /\ pc'[t] # pc[t]) =>
                    /\ block[old].count >= 2
                    /\ block'[old].count = block[old].count - 1
                    /\ \A b \in BlockIds \ {old} : block'[b] = block[b]
       /\ \A b \in BlockIds : block[b].st = "live" =>
            (block'[b].st = "live" /\ block'[b].count >= 1)
    ]_vars

\* C13 witness: a self-assignment p = p has incremented, exchanged and
\* decremented, and the block still has its three references
C13_Witness ==
    \E t \in Threads :
        /\ pc[t] = "as_dec_other"
        /\ loc[t].dst = loc[t].src
        /\ loc[t].old.block_ptr = loc[t].d.block_ptr
        /\ block[loc[t].d.block_ptr].st = "live"
        /\ block[loc[t].d.block_ptr].count = 3

\* the descriptors of all live handles: the external ones and each
\* container's internal handle
LiveDescs(h, c) ==
    {h[x].desc : x \in {y \in HandleIds : h[y].st = "live"}}
        \cup {c[x].desc : x \in {y \in ContIds : c[y].st = "live"}}

\* C14: in a sequential run that has not aborted, the block of every live
\* handle is allocated, has a non-null data address and a counter of at least
\* 1; a block is freed only by a step that finds its counter at 1 and leaves
\* it at 0, and a freed block is never touched or freed again.
C14_BlocksOutliveHandles ==
    [][/\ proc' = "running" =>
            \A d \in LiveDescs(hnd', cont') :
                /\ block'[d.block_ptr].st = "live"
                /\ block'[d.block_ptr].data # NullPtr
                /\ block'[d.block_ptr].count >= 1
       /\ \A b \in BlockIds :
            /\ (block[b].st = "live" /\ block'[b].st # "live") =>
                  /\ block[b].count = 1
                  /\ block'[b].st = "freed" /\ block'[b].count = 0
                  /\ last'.op \in {"val_dtor", "ptr_dtor", "ptr_assign",
                                   "ptr_assign_widen", "ptr_assign_val"}
            /\ block[b].st = "freed" => block'[b] = block[b]
            /\ ~block'[b].uaf
    ]_vars

\* C14 witness: one container was destroyed and its block freed while another
\* container and an external handle on it live on
C14_Witness ==
    /\ last.op = "val_dtor" /\ last.status = "ok"
    /\ block[last.dst].st = "freed"
    /\ \E h \in HandleIds :
          /\ hnd[h].st = "live"
          /\ block[hnd[h].desc.block_ptr].st = "live"
          /\ block[hnd[h].desc.block_ptr].count = 2

\* C15 (as claimed): between operations every allocated block is referenced by
\* a live handle and counted, so that a decrement to zero will free it; after
\* val::clone no block allocated for the clone is left.
C15_NoOrphanBlock ==
    proc = "running" =>
        \A b \in BlockIds : block[b].st = "live" =>
            /\ block[b].count >= 1
            /\ \E d \in LiveDescs(hnd, cont) : d.block_ptr = b

\* references to block b that thread t holds in the locals of the operation it
\* is in the middle of: counted already, not yet released
InFlight(t, b) ==
    LET d == IF loc[t].d.block_ptr = b THEN 1 ELSE 0
        o == IF loc[t].old.block_ptr = b THEN 1 ELSE 0
    IN CASE pc[t] = "as_inc_new"              -> d
         [] pc[t] \in {"as_lock", "as_xchg"}  -> 2 * d
         [] pc[t] = "as_dec_old"              -> d + o
         [] pc[t] = "as_dec_other"            -> d
         [] pc[t] = "dh_dec"                  -> d
         [] OTHER                             -> 0

RECURSIVE SumInFlight(_, _)
SumInFlight(ts, b) ==
    IF ts = {} THEN 0
    ELSE LET t == CHOOSE x \in ts : TRUE IN InFlight(t, b) + SumInFlight(ts \ {t}, b)

\* C16: while the containers live, under every interleaving each block's
\* counter is the number of live handles on it (the container's internal one
\* included) plus the references the running operations have counted and not
\* yet released; so once every operation has completed the counter equals the
\* number of live handles on the block: each installed descriptor was counted
\* once and each descriptor swapped out was released once.
C16_CountMatchesHandles ==
    \A b \in BlockIds : block[b].st # "unalloc" =>
        /\ block[b].st = "live"
        /\ block[b].count =
              Cardinality(ExtHandles(b))
              + Cardinality({c \in ContIds : cont[c].st = "live" /\ cont[c].desc.block_ptr = b})
              + SumInFlight(Threads, b)
        /\ (\A t \in Threads : pc[t] = "idle") => SumInFlight(Threads, b) = 0

\* C16 witness: two threads assign to the same handle at once; one is inside
\* the exchange, the other waits for the handle's lock
C16_Witness ==
    \E t1 \in Threads, t2 \in Threads :
        /\ t1 # t2
        /\ pc[t1] = "as_xchg" /\ pc[t2] = "as_lock"
        /\ loc[t1].dst = loc[t2].dst
        /\ loc[t1].d.block_ptr # loc[t2].d.block_ptr

\* the locks thread t holds
Held(t) == {h \in HandleIds : mtx[h] = t}

\* what a step of a handle operation may do with locks
LockDiscipline ==
    \A t \in Threads :
        /\ (pc'[t] # pc[t] /\ block' # block) => Held(t) = {}
        /\ Held(t) # {} => Held(t)' \subseteq Held(t)

\* C17: a thread never holds more than one handle's lock; it holds none when
\* it touches a block counter or acquires a lock; and as long as the
\* scheduler runs some thread that can take a step, whenever operations are in
\* progress they all complete, so concurrent operations (p = q against q = p
\* included) cannot deadlock.
C17_NoDeadlock ==
    /\ [](\A t \in Threads : Cardinality(Held(t)) <= 1)
    /\ [][LockDiscipline]_vars
    /\ (\E t \in Threads : pc[t] # "idle") ~> (\A t \in Threads : pc[t] = "idle")

\* C17 witness: p = q and q = p run in parallel; one thread is inside the
\* exchange on p, holding its lock, while the other is about to lock q
C17_Witness ==
    \E t \in Threads, u \in Threads :
        /\ t # u
        /\ pc[t] = "as_xchg" /\ pc[u] = "as_lock"
        /\ Held(t) = {loc[t].dst} /\ Held(u) = {}
        /\ loc[t].dst # loc[t].src
        /\ loc[u].dst = loc[t].src /\ loc[u].src = loc[t].dst

\* C18: the data address of every live container's block is a heap address,
\* never the container's own inline buffer, whether or not the value would
\* fit the buffer; a completed container destruction releases the value with
\* the dispatcher's Delete, and Destruct is never run on any value.
C18_AlwaysHeap ==
    [][/\ \A c \in ContIds : (cont'[c].st = "live" /\ proc' = "running") =>
            LET a == block'[cont'[c].desc.block_ptr].data IN
            a \in ObjIds /\ a # SmallStorage(c)
       /\ (last'.op = "val_dtor" /\ last'.status = "ok") =>
            LET o == DataOf(last'.dst) IN
            obj'[o].ndel = obj[o].ndel + 1
       /\ \A a \in ObjAddrs : obj'[a].ndes = 0
    ]_vars

\* C18 witness: a val<Circle> holding a Circle, which fits its inline buffer,
\* was destroyed and the value released with Delete
C18_Witness ==
    /\ last.op = "val_dtor" /\ last.status = "ok"
    /\ last.T = "Circle" /\ concrete = "Circle"
    /\ SizeOf(concrete) <= SmallStorageSize(last.T)
    /\ \E o \in ObjIds : obj[o].st = "deleted" /\ obj[o].type = "Circle" /\ obj[o].ndel = 1

CloneOps == {"val_copy", "val_widen", "val_narrow", "val_clone"}

\* C10: a container of a type that cannot be copy-constructed can be built;
\* every later clone attempt fails with a logic error, allocates no block and
\* leaves the source's value, descriptor and counter unchanged.
C10_UncopyableFailsAtClone ==
    [][/\ (last'.op = "val_construct" /\ ~IsCopyConstructible(last'.T)) =>
            /\ last'.status = "ok"
            /\ cont'[last'.dst].st = "live"
            /\ obj'[block'[cont'[last'.dst].desc.block_ptr].data].type = last'.T
       /\ (last'.op \in CloneOps
             /\ ~IsCopyConstructible(ConcreteOf(block, obj, cont[last'.src].desc))) =>
            /\ last'.status = "logic_error"
            /\ block' = block /\ obj' = obj /\ cont' = cont /\ hnd' = hnd
            /\ proc' = "running"
    ]_vars

\* C10 witness: a clone of a live Token container was refused
C10_Witness ==
    /\ last.op = "val_clone" /\ last.status = "logic_error"
    /\ cont[last.src].st = "live"
    /\ ConcreteOf(block, obj, cont[last.src].desc) = "Token"

====
